---- MODULE Spec2Model ----
(***************************************************************************)
(* ResNext / SE-ResNext architecture assembly (model/model_zoo/resnext.py). *)
(*                                                                         *)
(* A network is modelled by the layer descriptors its constructors emit,   *)
(* tensors by their shapes, parameters by their shapes and by whether they *)
(* still hold their construction-time value or a value copied from a       *)
(* serialized state dict.                                                  *)
(***************************************************************************)
EXTENDS Integers, Sequences, FiniteSets, TLC

VARIABLES call, net, returned, err, fwd

vars == <<call, net, returned, err, fwd>>

(***************************************************************************)
(* Bounds of the explored inputs.                                          *)
(***************************************************************************)
MaxStages == 2      \* longest `layers` list handed to ResNext directly
MaxBlocks == 2      \* largest block count in such a list
MaxBatch  == 2      \* largest batch dimension of a forward input
MaxScale  == 2      \* forward inputs have sides 32*k, k \in 1..MaxScale
MaxSize   == 2      \* ... and the small square sides 1..MaxSize

(***************************************************************************)
(* Python helpers: dict lookup with default, dict item assignment.         *)
(***************************************************************************)
NoKwargs == [k \in {} |-> FALSE]

Get(kwargs, key, default) == IF key \in DOMAIN kwargs THEN kwargs[key] ELSE default

SetItem(kwargs, key, value) ==
    [k \in DOMAIN kwargs \cup {key} |-> IF k = key THEN value ELSE kwargs[k]]

DelItems(kwargs, keys) == [k \in DOMAIN kwargs \ keys |-> kwargs[k]]

Max(a, b) == IF a >= b THEN a ELSE b

(***************************************************************************)
(* Layer descriptors (torch.nn modules as the file constructs them).       *)
(***************************************************************************)
Conv2d(in_channels, out_channels, kernel_size, stride, padding, groups, bias) ==
    [kind |-> "Conv2d", cin |-> in_channels, cout |-> out_channels,
     k |-> kernel_size, s |-> stride, p |-> padding, groups |-> groups,
     bias |-> bias]

BatchNorm2d(num_features) ==
    [kind |-> "BatchNorm2d", c |-> num_features, weight |-> "ones"]

zeros_(layer) == [layer EXCEPT !.weight = "zeros"]

ReLU == [kind |-> "ReLU"]

Sigmoid == [kind |-> "Sigmoid"]

MaxPool2d(kernel_size, stride, padding) ==
    [kind |-> "MaxPool2d", k |-> kernel_size, s |-> stride, p |-> padding]

Linear(in_features, out_features) ==
    [kind |-> "Linear", cin |-> in_features, cout |-> out_features]

(***************************************************************************)
(* Block.__init__                                                          *)
(***************************************************************************)
BottleneckD(channels, bottleneck_width) == (channels * bottleneck_width) \div 64

\* variant: the last_gamma flag is not applied
LastNorm_Plain(num_features, last_gamma) == BatchNorm2d(num_features)

LastNorm(num_features, last_gamma) ==
    IF last_gamma THEN zeros_(BatchNorm2d(num_features))
                  ELSE BatchNorm2d(num_features)

\* variant: the gate is reduced to a quarter of the block's output width
SEModule_Quarter(channels) ==
    << Conv2d(channels * 4, channels, 1, 1, 0, 1, TRUE),
       ReLU,
       Conv2d(channels, channels * 4, 1, 1, 0, 1, TRUE),
       Sigmoid >>

SEModule(channels) ==
    << Conv2d(channels * 4, channels \div 4, 1, 1, 0, 1, TRUE),
       ReLU,
       Conv2d(channels \div 4, channels * 4, 1, 1, 0, 1, TRUE),
       Sigmoid >>

\* variant: the projection convolution is padded like the 3x3 convolution
Downsample_Padded(in_channels, channels, stride) ==
    << Conv2d(in_channels, channels * 4, 1, stride, 1, 1, FALSE),
       BatchNorm2d(channels * 4) >>

Downsample(in_channels, channels, stride) ==
    << Conv2d(in_channels, channels * 4, 1, stride, 0, 1, FALSE),
       BatchNorm2d(channels * 4) >>

\* variant: the downsample flag is ignored and every block gets a projection
Block_AlwaysDownsample(in_channels, channels, cardinality, bottleneck_width, stride, downsample, last_gamma, use_se) ==
    LET D == BottleneckD(channels, bottleneck_width)
        group_width == cardinality * D
    IN  [kind |-> "Block",
         body |-> << Conv2d(in_channels, group_width, 1, 1, 0, 1, FALSE),
                     BatchNorm2d(group_width),
                     ReLU,
                     Conv2d(group_width, group_width, 3, stride, 1, cardinality, FALSE),
                     BatchNorm2d(group_width),
                     ReLU,
                     Conv2d(group_width, channels * 4, 1, 1, 0, 1, FALSE),
                     LastNorm(channels * 4, last_gamma) >>,
         se |-> IF use_se THEN SEModule(channels) ELSE <<>>,
         downsample |-> Downsample(in_channels, channels, stride)]

Block(in_channels, channels, cardinality, bottleneck_width, stride, downsample, last_gamma, use_se) ==
    LET D == BottleneckD(channels, bottleneck_width)
        group_width == cardinality * D
    IN  [kind |-> "Block",
         body |-> << Conv2d(in_channels, group_width, 1, 1, 0, 1, FALSE),
                     BatchNorm2d(group_width),
                     ReLU,
                     Conv2d(group_width, group_width, 3, stride, 1, cardinality, FALSE),
                     BatchNorm2d(group_width),
                     ReLU,
                     Conv2d(group_width, channels * 4, 1, 1, 0, 1, FALSE),
                     LastNorm(channels * 4, last_gamma) >>,
         se |-> IF use_se THEN SEModule(channels) ELSE <<>>,
         downsample |-> IF downsample THEN Downsample(in_channels, channels, stride)
                                      ELSE <<>>]

(***************************************************************************)
(* ResNext._make_layer and ResNext.__init__                                *)
(***************************************************************************)
RECURSIVE LaterBlocks(_, _, _, _, _, _)
LaterBlocks(n, channels, cardinality, bottleneck_width, last_gamma, use_se) ==
    IF n <= 0 THEN <<>>
    ELSE << Block(channels * 4, channels, cardinality, bottleneck_width,
                  1, FALSE, last_gamma, use_se) >>
         \o LaterBlocks(n - 1, channels, cardinality, bottleneck_width,
                        last_gamma, use_se)

_make_layer(cardinality, bottleneck_width, in_channels, channels, num_layers, stride, last_gamma, use_se) ==
    [kind |-> "Sequential",
     blocks |-> << Block(in_channels, channels, cardinality, bottleneck_width,
                         stride, TRUE, last_gamma, use_se) >>
                \o LaterBlocks(num_layers - 1, channels, cardinality,
                               bottleneck_width, last_gamma, use_se)]

\* variant: every stage, the first included, is built with stride 2
StageStride_AllTwo(i) == 2

StageStride(i) == IF i = 0 THEN 1 ELSE 2

\* variant: the running input width doubles after the first stage as well
NextInChannels_Doubling(i, in_channels) == in_channels * 2

NextInChannels(i, in_channels) == IF i = 0 THEN in_channels * 4 ELSE in_channels * 2

Stem(channels) ==
    << Conv2d(3, channels, 7, 2, 3, 1, FALSE),
       BatchNorm2d(channels),
       ReLU,
       MaxPool2d(3, 2, 1) >>

\* the loop of ResNext.__init__ from index i on: the stages it appends and
\* the value of in_channels it ends with
RECURSIVE StageLoop(_, _, _, _, _, _, _, _)
StageLoop(layers, i, in_channels, channels, cardinality, bottleneck_width, last_gamma, use_se) ==
    IF i >= Len(layers) THEN [stages |-> <<>>, in_channels |-> in_channels]
    ELSE LET stage == _make_layer(cardinality, bottleneck_width, in_channels,
                                  channels, layers[i + 1], StageStride(i),
                                  last_gamma, use_se)
             rest == StageLoop(layers, i + 1, NextInChannels(i, in_channels),
                               channels * 2, cardinality, bottleneck_width,
                               last_gamma, use_se)
         IN  [stages |-> <<stage>> \o rest.stages, in_channels |-> rest.in_channels]

ResNext(layers, cardinality, bottleneck_width, classes, last_gamma, use_se) ==
    LET loop == StageLoop(layers, 0, 64, 64, cardinality, bottleneck_width,
                          last_gamma, use_se)
    IN  [kind |-> "ResNext",
         cardinality |-> cardinality,
         bottleneck_width |-> bottleneck_width,
         features |-> Stem(64) \o loop.stages,
         output |-> Linear(loop.in_channels, classes),
         training |-> TRUE,
         loaded |-> {},
         attrs |-> {}]

NoNet == [kind |-> "None"]

Stages(n) == SubSeq(n.features, 5, Len(n.features))

(***************************************************************************)
(* Tensor shapes.  A value flowing through forward is either a shape or    *)
(* the exception that ended the evaluation.                                *)
(***************************************************************************)
Ok(shape) == [err |-> "none", shape |-> shape]

Fail(e) == [err |-> e, shape |-> <<>>]

\* output side of a convolution / pooling window over a side of length h
ConvOut(h, k, s, p) == (h + 2 * p - k) \div s + 1

ApplyConv2d(l, x) ==
    IF x[2] # l.cin \/ x[3] + 2 * l.p < l.k \/ x[4] + 2 * l.p < l.k
    THEN Fail("RuntimeError")
    ELSE Ok(<<x[1], l.cout, ConvOut(x[3], l.k, l.s, l.p), ConvOut(x[4], l.k, l.s, l.p)>>)

\* a module constructed by this file is in training mode until eval() is
\* called; batch normalization then needs more than one value per channel
ApplyBatchNorm2d(l, x, training) ==
    IF x[2] # l.c THEN Fail("RuntimeError")
    ELSE IF training /\ x[1] * x[3] * x[4] = 1 THEN Fail("ValueError")
    ELSE Ok(x)

ApplyMaxPool2d(l, x) ==
    IF x[3] + 2 * l.p < l.k \/ x[4] + 2 * l.p < l.k
    THEN Fail("RuntimeError")
    ELSE Ok(<<x[1], x[2], ConvOut(x[3], l.k, l.s, l.p), ConvOut(x[4], l.k, l.s, l.p)>>)

ApplyLinear(l, x) ==
    IF Len(x) = 0 \/ x[Len(x)] # l.cin THEN Fail("RuntimeError")
    ELSE Ok(SubSeq(x, 1, Len(x) - 1) \o <<l.cout>>)

ApplyLayer(l, r, training) ==
    IF r.err # "none" THEN r
    ELSE CASE l.kind = "Conv2d"      -> ApplyConv2d(l, r.shape)
           [] l.kind = "BatchNorm2d" -> ApplyBatchNorm2d(l, r.shape, training)
           [] l.kind = "MaxPool2d"   -> ApplyMaxPool2d(l, r.shape)
           [] l.kind = "Linear"      -> ApplyLinear(l, r.shape)
           [] OTHER                  -> r

\* nn.Sequential over plain layers, from position i on
RECURSIVE Sequential(_, _, _, _)
Sequential(layers, i, r, training) ==
    IF i > Len(layers) THEN r
    ELSE Sequential(layers, i + 1, ApplyLayer(layers[i], r, training), training)

adaptive_avg_pool2d(r) ==
    IF r.err # "none" THEN r ELSE Ok(<<r.shape[1], r.shape[2], 1, 1>>)

\* Tensor.squeeze_(dim), dim counted from 0
squeeze_(r, dim) ==
    IF r.err # "none" THEN r
    ELSE IF dim + 1 <= Len(r.shape) /\ r.shape[dim + 1] = 1
         THEN Ok(SubSeq(r.shape, 1, dim) \o SubSeq(r.shape, dim + 2, Len(r.shape)))
         ELSE r

\* shape of an elementwise binary operation (broadcasting)
Broadcast(a, b) ==
    IF a.err # "none" THEN a
    ELSE IF b.err # "none" THEN b
    ELSE IF Len(a.shape) # Len(b.shape) THEN Fail("RuntimeError")
    ELSE IF \E d \in 1..Len(a.shape) :
                a.shape[d] # b.shape[d] /\ a.shape[d] # 1 /\ b.shape[d] # 1
         THEN Fail("RuntimeError")
         ELSE Ok([d \in 1..Len(a.shape) |-> Max(a.shape[d], b.shape[d])])

(***************************************************************************)
(* Block.forward: the result, and the two operands of the residual sum.    *)
(***************************************************************************)
BlockGate(b, x, training) ==
    IF Len(b.se) > 0
    THEN Broadcast(x, Sequential(b.se, 1, adaptive_avg_pool2d(x), training))
    ELSE x

BlockShortcut(b, r, training) ==
    IF Len(b.downsample) > 0 THEN Sequential(b.downsample, 1, r, training) ELSE r

Block_forward(b, r, training) ==
    LET body     == Sequential(b.body, 1, r, training)
        x        == BlockGate(b, body, training)
        residual == IF x.err # "none" THEN x ELSE BlockShortcut(b, r, training)
    IN  [body |-> body, x |-> x, residual |-> residual, out |-> Broadcast(x, residual)]

(***************************************************************************)
(* ResNext.forward                                                         *)
(***************************************************************************)
\* state of an evaluation: the value so far and the residual sums evaluated
RECURSIVE RunBlocks(_, _, _, _)
RunBlocks(blocks, i, st, training) ==
    IF i > Len(blocks) \/ st.r.err # "none" THEN st
    ELSE LET f == Block_forward(blocks[i], st.r, training)
         IN  RunBlocks(blocks, i + 1,
                       [r |-> f.out,
                        trace |-> Append(st.trace, [input |-> st.r.shape, body |-> f.body,
                                                    x |-> f.x, residual |-> f.residual])],
                       training)

RECURSIVE RunFeatures(_, _, _, _)
RunFeatures(features, i, st, training) ==
    IF i > Len(features) \/ st.r.err # "none" THEN st
    ELSE IF features[i].kind = "Sequential"
         THEN RunFeatures(features, i + 1, RunBlocks(features[i].blocks, 1, st, training), training)
         ELSE RunFeatures(features, i + 1,
                          [r |-> ApplyLayer(features[i], st.r, training), trace |-> st.trace],
                          training)

\* variant: squeeze() of every unit dimension, the batch dimension included
HeadPool_SqueezeAll(r) == squeeze_(squeeze_(squeeze_(adaptive_avg_pool2d(r), 3), 2), 0)

HeadPool(r) == squeeze_(squeeze_(adaptive_avg_pool2d(r), 3), 2)

ResNext_forward(n, x) ==
    LET st == RunFeatures(n.features, 1, [r |-> Ok(x), trace |-> <<>>], n.training)
    IN  [out |-> ApplyLayer(n.output, HeadPool(st.r), n.training), trace |-> st.trace]

(***************************************************************************)
(* Parameters: state_dict and load_state_dict.  A key is                   *)
(* <<position in features (0: output), block, part, layer, parameter>>.    *)
(***************************************************************************)
LayerParams(l) ==
    CASE l.kind = "Conv2d" ->
            {<<1, <<l.cout, l.cin \div l.groups, l.k, l.k>> >>}
            \cup (IF l.bias THEN {<<2, <<l.cout>> >>} ELSE {})
      [] l.kind = "BatchNorm2d" ->
            {<<1, <<l.c>> >>, <<2, <<l.c>> >>, <<3, <<l.c>> >>, <<4, <<l.c>> >>, <<5, <<>> >>}
      [] l.kind = "Linear" ->
            {<<1, <<l.cout, l.cin>> >>, <<2, <<l.cout>> >>}
      [] OTHER -> {}

SeqParams(layers, f, b, part) ==
    UNION { { << <<f, b, part, j, p[1]>>, p[2] >> : p \in LayerParams(layers[j]) } : j \in 1..Len(layers) }

BlockParams(b, f, i) ==
    SeqParams(b.body, f, i, 1) \cup SeqParams(b.se, f, i, 2) \cup SeqParams(b.downsample, f, i, 3)

FeatureParams(n, f) ==
    IF n.features[f].kind = "Sequential"
    THEN UNION { BlockParams(n.features[f].blocks[i], f, i) : i \in 1..Len(n.features[f].blocks) }
    ELSE { << <<f, 0, 0, 0, p[1]>>, p[2] >> : p \in LayerParams(n.features[f]) }

state_dict(n) ==
    UNION { FeatureParams(n, f) : f \in 1..Len(n.features) }
    \cup { << <<0, 0, 0, 0, p[1]>>, p[2] >> : p \in LayerParams(n.output) }

Keys(sd) == { p[1] : p \in sd }

\* variant: mismatches are ignored instead of raised
load_state_dict_Lenient(n, blob) ==
    [net |-> [n EXCEPT !.loaded = Keys(state_dict(n) \cap blob)], err |-> "none"]

\* Module.load_state_dict(strict=True): every entry whose key and shape
\* match is copied; size mismatches, missing and unexpected keys are
\* collected and raised together afterwards
load_state_dict(n, blob) ==
    LET own == state_dict(n)
    IN  [net |-> [n EXCEPT !.loaded = Keys(own \cap blob)],
         err |-> IF own = blob THEN "none" ELSE "RuntimeError"]

(***************************************************************************)
(* Specification table and constructors                                    *)
(***************************************************************************)
resnext_spec == (50 :> <<3, 4, 6, 3>>) @@ (101 :> <<3, 4, 23, 3>>)

None == [kind |-> "None"]

\* torch.load of a locator: the file holds the state dict of the network
\* the locator describes
torch_load(pretrained) ==
    state_dict(ResNext(resnext_spec[pretrained.num_layers], pretrained.cardinality,
                       pretrained.bottleneck_width, pretrained.classes, FALSE,
                       pretrained.use_se))

ImageNetAttr == {"synset", "classes", "classes_long"}

NoError == [kind |-> "none"]

AssertionError(num_layers) ==
    [kind |-> "AssertionError", num_layers |-> num_layers, options |-> DOMAIN resnext_spec]

\* variant: an unknown depth falls back to the 50-layer preset
get_resnext_Fallback(num_layers, cardinality, bottleneck_width, use_se, pretrained, kwargs) ==
    LET layers == IF num_layers \in DOMAIN resnext_spec THEN resnext_spec[num_layers]
                                                         ELSE resnext_spec[50]
        n == ResNext(layers, cardinality, bottleneck_width,
                     Get(kwargs, "classes", 1000), Get(kwargs, "last_gamma", FALSE),
                     use_se)
    IN  IF pretrained = None
        THEN [net |-> n, returned |-> TRUE, err |-> NoError]
        ELSE LET ld == load_state_dict(n, torch_load(pretrained))
             IN  IF ld.err # "none"
                 THEN [net |-> ld.net, returned |-> FALSE, err |-> [kind |-> ld.err]]
                 ELSE [net |-> [ld.net EXCEPT !.attrs = ImageNetAttr],
                       returned |-> TRUE, err |-> NoError]

get_resnext(num_layers, cardinality, bottleneck_width, use_se, pretrained, kwargs) ==
    IF num_layers \notin DOMAIN resnext_spec
    THEN [net |-> NoNet, returned |-> FALSE, err |-> AssertionError(num_layers)]
    ELSE LET layers == resnext_spec[num_layers]
             n == ResNext(layers, cardinality, bottleneck_width,
                          Get(kwargs, "classes", 1000), Get(kwargs, "last_gamma", FALSE),
                          use_se)
         IN  IF pretrained = None
             THEN [net |-> n, returned |-> TRUE, err |-> NoError]
             ELSE LET ld == load_state_dict(n, torch_load(pretrained))
                  IN  IF ld.err # "none"
                      THEN [net |-> ld.net, returned |-> FALSE, err |-> [kind |-> ld.err]]
                      ELSE [net |-> [ld.net EXCEPT !.attrs = ImageNetAttr],
                            returned |-> TRUE, err |-> NoError]

\* variant: the flag is only a default (kwargs.setdefault('use_se', <flag>))
Named_SetDefault(num_layers, cardinality, bottleneck_width, flag, kwargs) ==
    get_resnext(num_layers, cardinality, bottleneck_width, Get(kwargs, "use_se", flag),
                Get(kwargs, "pretrained", None), DelItems(kwargs, {"use_se", "pretrained"}))

\* a named constructor: kwargs['use_se'] = <flag>, then
\* get_resnext(num_layers, cardinality, bottleneck_width, **kwargs)
Named(num_layers, cardinality, bottleneck_width, flag, kwargs) ==
    LET kw == SetItem(kwargs, "use_se", flag)
    IN  get_resnext(num_layers, cardinality, bottleneck_width, kw["use_se"],
                    Get(kw, "pretrained", None), DelItems(kw, {"use_se", "pretrained"}))

resnext50_32x4d(kwargs) == Named(50, 32, 4, FALSE, kwargs)

resnext101_32x4d(kwargs) == Named(101, 32, 4, FALSE, kwargs)

resnext101_64x4d(kwargs) == Named(101, 64, 4, FALSE, kwargs)

se_resnext50_32x4d(kwargs) == Named(50, 32, 4, TRUE, kwargs)

se_resnext101_32x4d(kwargs) == Named(101, 32, 4, TRUE, kwargs)

se_resnext101_64x4d(kwargs) == Named(101, 64, 4, TRUE, kwargs)

(***************************************************************************)
(* Inputs of the explored calls                                            *)
(***************************************************************************)
StateDictOf(num_layers, cardinality, bottleneck_width, classes, use_se) ==
    [kind |-> "state_dict", num_layers |-> num_layers, cardinality |-> cardinality,
     bottleneck_width |-> bottleneck_width, classes |-> classes, use_se |-> use_se]

\* pretrained-weights locators: files saved from these networks
Locators ==
    { StateDictOf(50, 32, 4, 1000, FALSE),
      StateDictOf(50, 32, 4, 10, FALSE),
      StateDictOf(101, 64, 4, 1000, TRUE) }

Opt(key, values) == {NoKwargs} \cup { key :> v : v \in values }

\* keyword arguments handed to a named constructor
Kwargs ==
    { a @@ b : a \in Opt("use_se", BOOLEAN), b \in Opt("last_gamma", {TRUE}) }
    \cup { c @@ d : c \in Opt("classes", {10}), d \in Opt("pretrained", Locators) }

Depths == {18, 34, 50, 101, 152}

RECURSIVE LayerLists(_)
LayerLists(len) ==
    IF len = 0 THEN {<<>>}
    ELSE { Append(l, b) : l \in LayerLists(len - 1), b \in 1..MaxBlocks }

\* remaining arguments of a direct ResNext(...) call
Arguments ==
    { [cardinality |-> 1, bottleneck_width |-> 1, last_gamma |-> FALSE, use_se |-> FALSE],
      [cardinality |-> 1, bottleneck_width |-> 4, last_gamma |-> TRUE, use_se |-> TRUE],
      [cardinality |-> 32, bottleneck_width |-> 1, last_gamma |-> TRUE, use_se |-> FALSE],
      [cardinality |-> 32, bottleneck_width |-> 4, last_gamma |-> FALSE, use_se |-> TRUE] }

Sides == { 32 * k : k \in 1..MaxScale }

\* forward inputs: multiples of the total stride, the nominal 224x224, small
\* squares, and one tensor with the wrong number of channels
Inputs ==
    { <<n, 3, h, w>> : n \in 1..MaxBatch, h \in Sides, w \in Sides }
    \cup { <<n, 3, 224, 224>> : n \in 1..MaxBatch }
    \cup { <<n, 3, h, h>> : n \in 1..MaxBatch, h \in 1..MaxSize }
    \cup { <<1, 1, 224, 224>> }

(***************************************************************************)
(* Behaviours: a caller builds one network (every call builds a fresh,     *)
(* independent graph), may switch its mode, then evaluates it once.        *)
(***************************************************************************)
Init ==
    /\ call = [fn |-> "none"]
    /\ net = NoNet
    /\ returned = FALSE
    /\ err = NoError
    /\ fwd = [done |-> FALSE]

Return(c, result) ==
    /\ call.fn = "none"
    /\ call' = c
    /\ net' = result.net
    /\ returned' = result.returned
    /\ err' = result.err
    /\ UNCHANGED fwd

NamedCall(fn, kwargs) == [fn |-> fn, kwargs |-> kwargs]

Call_resnext50_32x4d ==
    \E kwargs \in Kwargs : Return(NamedCall("resnext50_32x4d", kwargs), resnext50_32x4d(kwargs))

Call_resnext101_32x4d ==
    \E kwargs \in Kwargs : Return(NamedCall("resnext101_32x4d", kwargs), resnext101_32x4d(kwargs))

Call_resnext101_64x4d ==
    \E kwargs \in Kwargs : Return(NamedCall("resnext101_64x4d", kwargs), resnext101_64x4d(kwargs))

Call_se_resnext50_32x4d ==
    \E kwargs \in Kwargs : Return(NamedCall("se_resnext50_32x4d", kwargs), se_resnext50_32x4d(kwargs))

Call_se_resnext101_32x4d ==
    \E kwargs \in Kwargs : Return(NamedCall("se_resnext101_32x4d", kwargs), se_resnext101_32x4d(kwargs))

Call_se_resnext101_64x4d ==
    \E kwargs \in Kwargs : Return(NamedCall("se_resnext101_64x4d", kwargs), se_resnext101_64x4d(kwargs))

Call_get_resnext ==
    \E num_layers \in Depths, cardinality \in {32, 64}, use_se \in BOOLEAN,
       pretrained \in {None, StateDictOf(50, 32, 4, 1000, FALSE)},
       kwargs \in Opt("last_gamma", {TRUE}) :
        Return([fn |-> "get_resnext", num_layers |-> num_layers, cardinality |-> cardinality,
                bottleneck_width |-> 4, use_se |-> use_se, pretrained |-> pretrained,
                kwargs |-> kwargs],
               get_resnext(num_layers, cardinality, 4, use_se, pretrained, kwargs))

Call_ResNext ==
    \E len \in 1..MaxStages, a \in Arguments :
        \E layers \in LayerLists(len) :
            Return([fn |-> "ResNext", layers |-> layers, cardinality |-> a.cardinality,
                    bottleneck_width |-> a.bottleneck_width, classes |-> 1000,
                    last_gamma |-> a.last_gamma, use_se |-> a.use_se],
                   [net |-> ResNext(layers, a.cardinality, a.bottleneck_width, 1000,
                                    a.last_gamma, a.use_se),
                    returned |-> TRUE, err |-> NoError])

\* nn.Module.train(mode) / nn.Module.eval() on the returned network
Train ==
    \E mode \in BOOLEAN :
        /\ returned
        /\ ~fwd.done
        /\ net.training # mode
        /\ net' = [net EXCEPT !.training = mode]
        /\ UNCHANGED <<call, returned, err, fwd>>

Forward ==
    \E x \in Inputs :
        /\ returned
        /\ ~fwd.done
        /\ LET f == ResNext_forward(net, x)
           IN  fwd' = [done |-> TRUE, x |-> x, training |-> net.training,
                       out |-> f.out, trace |-> f.trace]
        /\ UNCHANGED <<call, net, returned, err>>

Next ==
    \/ Call_resnext50_32x4d
    \/ Call_resnext101_32x4d
    \/ Call_resnext101_64x4d
    \/ Call_se_resnext50_32x4d
    \/ Call_se_resnext101_32x4d
    \/ Call_se_resnext101_64x4d
    \/ Call_get_resnext
    \/ Call_ResNext
    \/ Train
    \/ Forward

Spec == Init /\ [][Next]_vars
(***************************************************************************)
(* What the caller asked for, read off the recorded call.                  *)
(***************************************************************************)
NamedFns ==
    {"resnext50_32x4d", "resnext101_32x4d", "resnext101_64x4d",
     "se_resnext50_32x4d", "se_resnext101_32x4d", "se_resnext101_64x4d"}

ViaGetResnext == call.fn \in NamedFns \cup {"get_resnext"}

Built == net.kind = "ResNext"

AskedDepth ==
    IF call.fn = "get_resnext" THEN call.num_layers
    ELSE IF call.fn \in {"resnext50_32x4d", "se_resnext50_32x4d"} THEN 50 ELSE 101

AskedLayers ==
    IF call.fn = "ResNext" THEN call.layers
    ELSE IF AskedDepth = 50 THEN <<3, 4, 6, 3>> ELSE <<3, 4, 23, 3>>

AskedCardinality ==
    IF call.fn \in {"get_resnext", "ResNext"} THEN call.cardinality
    ELSE IF call.fn \in {"resnext101_64x4d", "se_resnext101_64x4d"} THEN 64 ELSE 32

AskedWidth == IF call.fn \in {"get_resnext", "ResNext"} THEN call.bottleneck_width ELSE 4

AskedClasses == IF call.fn = "ResNext" THEN call.classes ELSE Get(call.kwargs, "classes", 1000)

AskedLastGamma ==
    IF call.fn = "ResNext" THEN call.last_gamma ELSE Get(call.kwargs, "last_gamma", FALSE)

AskedSE ==
    IF call.fn \in {"get_resnext", "ResNext"} THEN call.use_se
    ELSE call.fn \in {"se_resnext50_32x4d", "se_resnext101_32x4d", "se_resnext101_64x4d"}

AskedPretrained ==
    IF call.fn = "get_resnext" THEN call.pretrained
    ELSE IF call.fn \in NamedFns THEN Get(call.kwargs, "pretrained", None)
    ELSE None

\* the blocks of a network in evaluation order, each with its stage (from 0)
\* and its position in the stage (from 0)
AllBlocks(n) ==
    LET st == Stages(n)
        RECURSIVE Flat(_)
        Flat(i) == IF i > Len(st) THEN <<>>
                   ELSE [j \in 1..Len(st[i].blocks) |->
                            [stage |-> i - 1, pos |-> j - 1, b |-> st[i].blocks[j]]]
                        \o Flat(i + 1)
    IN  Flat(1)

BlockSet(n) == LET all == AllBlocks(n) IN { all[j] : j \in 1..Len(all) }

InChannels(b) == b.body[1].cin

OutChannels(b) == b.body[7].cout

BlockStride(b) == b.body[4].s

HasDownsample(b) == Len(b.downsample) > 0

HasSE(b) == Len(b.se) > 0

RECURSIVE Pow2(_)
Pow2(e) == IF e = 0 THEN 1 ELSE 2 * Pow2(e - 1)

(***************************************************************************)
(* C1: for every depth preset that is not a key of the preset table        *)
(* {50, 101}, get_resnext fails with the configuration error, whose        *)
(* message lists the valid options, before any graph is constructed, any   *)
(* weights are loaded or any metadata is attached; no network is returned. *)
(***************************************************************************)
C1_UnsupportedDepthFails ==
    (call.fn = "get_resnext" /\ call.num_layers \notin {50, 101}) =>
        /\ err.kind = "AssertionError"
        /\ err.options = {50, 101}
        /\ err.num_layers = call.num_layers
        /\ net = NoNet
        /\ ~returned

C1_Witness ==
    call.fn = "get_resnext" /\ call.num_layers = 34 /\ err.kind = "AssertionError" /\ ~returned

(***************************************************************************)
(* C2: for each supported depth preset (50 -> [3,4,6,3], 101 ->            *)
(* [3,4,23,3]) get_resnext succeeds and the built network has as many      *)
(* stages as the preset's list has entries, stage i holds the i-th block   *)
(* count of blocks, and stage i is built with stride 1 if i = 0 and        *)
(* stride 2 otherwise.                                                     *)
(***************************************************************************)
C2_StagePlan ==
    (ViaGetResnext /\ AskedDepth \in {50, 101}) =>
        /\ Built
        /\ err.kind # "AssertionError"
        /\ AskedPretrained = None => (returned /\ err = NoError)
        /\ Len(Stages(net)) = Len(AskedLayers)
        /\ \A i \in 1..Len(AskedLayers) :
              /\ Stages(net)[i].kind = "Sequential"
              /\ Len(Stages(net)[i].blocks) = AskedLayers[i]
              /\ BlockStride(Stages(net)[i].blocks[1]) = (IF i = 1 THEN 1 ELSE 2)
              /\ Stages(net)[i].blocks[1].downsample[1].s = (IF i = 1 THEN 1 ELSE 2)

C2_Witness ==
    /\ call.fn = "get_resnext" /\ call.num_layers = 101 /\ returned
    /\ Len(Stages(net)) = 4
    /\ Len(Stages(net)[3].blocks) = 23
    /\ BlockStride(Stages(net)[3].blocks[1]) = 2

(***************************************************************************)
(* C3: channel-width progression of the 50-layer preset: every block of    *)
(* stage 0 outputs 256 channels, of stage 1 512, of stage 2 1024, of       *)
(* stage 3 2048; the input-channel count handed to the first block of a    *)
(* stage is the previous stage's output width (64 for stage 0); the        *)
(* classifier's input width is the last stage's output width (2048).       *)
(***************************************************************************)
C3_ChannelProgression ==
    (ViaGetResnext /\ AskedDepth = 50) =>
        /\ Built
        /\ \A e \in BlockSet(net) :
              /\ OutChannels(e.b) = (CASE e.stage = 0 -> 256 [] e.stage = 1 -> 512
                                       [] e.stage = 2 -> 1024 [] e.stage = 3 -> 2048)
              /\ e.b.body[8].c = OutChannels(e.b)
              /\ HasDownsample(e.b) => e.b.downsample[1].cout = OutChannels(e.b)
              /\ e.pos = 0 =>
                    InChannels(e.b) = (CASE e.stage = 0 -> 64 [] e.stage = 1 -> 256
                                         [] e.stage = 2 -> 512 [] e.stage = 3 -> 1024)
              /\ e.pos = 0 /\ HasDownsample(e.b) => e.b.downsample[1].cin = InChannels(e.b)
        /\ net.output.cin = 2048
        /\ (fwd.done /\ fwd.x[2] = 3) =>
              LET all == AllBlocks(net)
              IN  \A j \in 1..Len(fwd.trace) :
                      fwd.trace[j].x.err = "none" =>
                          fwd.trace[j].x.shape[2] = 256 * Pow2(all[j].stage)

C3_Witness ==
    /\ call.fn = "resnext50_32x4d" /\ returned
    /\ fwd.done /\ Len(fwd.trace) = 16
    /\ fwd.trace[16].x.err = "none" /\ fwd.trace[16].x.shape[2] = 2048
    /\ InChannels(Stages(net)[2].blocks[1]) = 256

(***************************************************************************)
(* C4: in every stage of every built network exactly the first block has   *)
(* a downsample (projection) shortcut, and a block has one whenever its    *)
(* input and output channel counts differ or its stride is not 1; every    *)
(* later block of the stage has stride 1 and no downsample path.           *)
(***************************************************************************)
C4_DownsampleFirstOnly ==
    Built =>
        \A e \in BlockSet(net) :
            /\ HasDownsample(e.b) <=> e.pos = 0
            /\ (InChannels(e.b) # OutChannels(e.b) \/ BlockStride(e.b) # 1) => HasDownsample(e.b)
            /\ e.pos > 0 => BlockStride(e.b) = 1

C4_Witness ==
    /\ Built
    /\ \E e1, e2 \in BlockSet(net) :
          /\ e1.stage = 1 /\ e1.pos = 0 /\ HasDownsample(e1.b) /\ BlockStride(e1.b) = 2
          /\ e2.stage = 1 /\ e2.pos = 1 /\ ~HasDownsample(e2.b)
(***************************************************************************)
(* C5 (as stated): for every network built by a named constructor and      *)
(* every input of shape (batch, 3, H, W) with H and W positive multiples   *)
(* of 32, forward returns a tensor of shape (batch, num_classes),          *)
(* num_classes = 1000 by default.                                          *)
(***************************************************************************)
NamedForward32 ==
    /\ fwd.done
    /\ call.fn \in NamedFns
    /\ fwd.x[2] = 3
    /\ fwd.x[3] % 32 = 0
    /\ fwd.x[4] % 32 = 0

C5_Original ==
    NamedForward32 =>
        /\ fwd.out.err = "none"
        /\ fwd.out.shape = <<fwd.x[1], AskedClasses>>

(***************************************************************************)
(* C5 (amended): for every network built by a named constructor and every  *)
(* input of shape (batch, 3, H, W) with H and W positive multiples of 32,  *)
(* forward returns a tensor of shape (batch, num_classes), num_classes =   *)
(* 1000 by default, batch = 1 included, provided the network is in         *)
(* evaluation mode or batch * (H/32) * (W/32) > 1; every residual sum on   *)
(* the way is evaluated without a shape conflict.                          *)
(***************************************************************************)
C5_ForwardShape ==
    (NamedForward32 /\ (~fwd.training \/ fwd.x[1] * (fwd.x[3] \div 32) * (fwd.x[4] \div 32) > 1)) =>
        /\ fwd.out.err = "none"
        /\ fwd.out.shape = <<fwd.x[1], AskedClasses>>
        /\ "classes" \notin DOMAIN call.kwargs => fwd.out.shape[2] = 1000
        /\ Len(fwd.trace) = Len(AllBlocks(net))

C5_Witness ==
    /\ NamedForward32
    /\ ~fwd.training
    /\ fwd.x = <<1, 3, 32, 32>>
    /\ fwd.out = Ok(<<1, 1000>>)

(***************************************************************************)
(* C6 (as stated): when get_resnext is given a pretrained-weights locator  *)
(* whose serialized parameters do not all match the constructed network,   *)
(* loading raises the mismatch error, every parameter of the constructed   *)
(* network still has its value from before the load, and no label          *)
(* metadata is attached.                                                   *)
(***************************************************************************)
LocatorMismatch ==
    /\ ViaGetResnext
    /\ Built
    /\ AskedPretrained # None
    /\ AskedPretrained # StateDictOf(AskedDepth, AskedCardinality, AskedWidth, AskedClasses, AskedSE)

C6_Original ==
    LocatorMismatch =>
        /\ err.kind = "RuntimeError"
        /\ ~returned
        /\ net.loaded = {}
        /\ net.attrs = {}

(***************************************************************************)
(* C6 (amended): when get_resnext is given a pretrained-weights locator    *)
(* whose serialized parameters do not all match the constructed network,   *)
(* loading raises the mismatch error, no network is returned and no label  *)
(* metadata is attached; the parameters whose serialized key and shape do  *)
(* match (the stem convolution always) have by then been overwritten, and  *)
(* only the others (the classifier, when the class counts differ) keep     *)
(* their value from before the load.                                       *)
(***************************************************************************)
StemConvWeight == <<1, 0, 0, 0, 1>>

OutputWeight == <<0, 0, 0, 0, 1>>

C6_MismatchRaises ==
    LocatorMismatch =>
        /\ err.kind = "RuntimeError"
        /\ ~returned
        /\ net.attrs = {}
        /\ StemConvWeight \in net.loaded
        /\ AskedPretrained.classes # AskedClasses => OutputWeight \notin net.loaded
        /\ net.loaded \subseteq Keys(state_dict(net))
        /\ Keys(torch_load(AskedPretrained) \ state_dict(net)) \cap net.loaded = {}

C6_Witness ==
    /\ LocatorMismatch
    /\ err.kind = "RuntimeError"
    /\ AskedPretrained.classes # AskedClasses
    /\ StemConvWeight \in net.loaded
    /\ OutputWeight \notin net.loaded
(***************************************************************************)
(* C7: enabling use_se adds the squeeze-and-excitation sublayers to every  *)
(* block of every stage and to no block when use_se is false; for the same *)
(* remaining configuration the main path of every block, and the shape it  *)
(* outputs, is the same with and without the gate; a plain named           *)
(* constructor builds no gate and an se_ named constructor builds the gate *)
(* in every block irrespective of a use_se keyword passed by the caller.   *)
(***************************************************************************)
\* the network of the same configuration with the gate switched the other way
Sibling ==
    ResNext(AskedLayers, AskedCardinality, AskedWidth, AskedClasses, AskedLastGamma, ~AskedSE)

C7_GateEverywhere ==
    Built =>
        /\ \A e \in BlockSet(net) :
              /\ HasSE(e.b) <=> AskedSE
              /\ HasSE(e.b) =>
                    /\ Len(e.b.se) = 4
                    /\ e.b.se[1].kind = "Conv2d" /\ e.b.se[2].kind = "ReLU"
                    /\ e.b.se[3].kind = "Conv2d" /\ e.b.se[4].kind = "Sigmoid"
        /\ LET all == AllBlocks(net)
               sib == AllBlocks(Sibling)
           IN  /\ Len(sib) = Len(all)
               /\ \A j \in 1..Len(all) :
                     /\ sib[j].b.body = all[j].b.body
                     /\ HasSE(sib[j].b) <=> ~HasSE(all[j].b)
               /\ fwd.done =>
                     \A j \in 1..Len(fwd.trace) :
                         fwd.trace[j].x.err = "none" =>
                             /\ fwd.trace[j].x.shape = fwd.trace[j].body.shape
                             /\ fwd.trace[j].x.shape[2] = OutChannels(all[j].b)
                             /\ Block_forward(sib[j].b, Ok(fwd.trace[j].input),
                                              fwd.training).x = fwd.trace[j].x

C7_Witness ==
    /\ call.fn = "se_resnext50_32x4d"
    /\ "use_se" \in DOMAIN call.kwargs
    /\ call.kwargs["use_se"] = FALSE
    /\ returned
    /\ \A e \in BlockSet(net) : HasSE(e.b)
    /\ fwd.done
    /\ Len(fwd.trace) = 16
    /\ fwd.trace[16].x = Ok(<<1, 2048, 7, 7>>)

(***************************************************************************)
(* C8: last_gamma = true makes the scale (gamma) of the final              *)
(* normalization of the main path zero in every block immediately after    *)
(* construction; the flag is forwarded unchanged from the named            *)
(* constructors and get_resnext to every block, and no other               *)
(* normalization layer (stem, first two of the main path, shortcut) is     *)
(* zero-initialised.                                                       *)
(***************************************************************************)
C8_LastGammaZero ==
    (Built /\ net.loaded = {}) =>
        /\ net.features[2].kind = "BatchNorm2d"
        /\ net.features[2].weight = "ones"
        /\ \A e \in BlockSet(net) :
              /\ e.b.body[8].kind = "BatchNorm2d"
              /\ e.b.body[8].weight = (IF AskedLastGamma THEN "zeros" ELSE "ones")
              /\ e.b.body[2].weight = "ones"
              /\ e.b.body[5].weight = "ones"
              /\ HasDownsample(e.b) => e.b.downsample[2].weight = "ones"

C8_Witness ==
    /\ call.fn \in NamedFns
    /\ Get(call.kwargs, "last_gamma", FALSE)
    /\ returned
    /\ net.loaded = {}
    /\ Stages(net)[4].blocks[3].body[8].weight = "zeros"
    /\ Stages(net)[4].blocks[1].downsample[2].weight = "ones"

(***************************************************************************)
(* C9 (as stated): in every block built with the squeeze-and-excitation    *)
(* path the gate's 1x1 reduction maps output_channels to                   *)
(* output_channels/4 channels and its 1x1 expansion maps back to           *)
(* output_channels, where output_channels = channels x 4 (256 -> 64 ->     *)
(* 256 for channels = 64).                                                 *)
(***************************************************************************)
C9_Original ==
    Built =>
        \A e \in BlockSet(net) :
            HasSE(e.b) =>
                /\ e.b.se[1].cin = OutChannels(e.b)
                /\ e.b.se[1].cout = OutChannels(e.b) \div 4
                /\ e.b.se[3].cin = OutChannels(e.b) \div 4
                /\ e.b.se[3].cout = OutChannels(e.b)

(***************************************************************************)
(* C9 (amended): in every block built with the squeeze-and-excitation path *)
(* the gate's 1x1 reduction maps output_channels to output_channels/16     *)
(* channels (channels // 4) and its 1x1 expansion maps back to             *)
(* output_channels, where output_channels = channels x 4 (256 -> 16 ->     *)
(* 256 for channels = 64).                                                 *)
(***************************************************************************)
C9_GateWidths ==
    Built =>
        \A e \in BlockSet(net) :
            HasSE(e.b) =>
                /\ e.b.se[1].cin = OutChannels(e.b)
                /\ e.b.se[1].cout = OutChannels(e.b) \div 16
                /\ e.b.se[3].cin = OutChannels(e.b) \div 16
                /\ e.b.se[3].cout = OutChannels(e.b)
                /\ e.b.se[1].k = 1 /\ e.b.se[3].k = 1

C9_Witness ==
    /\ Built
    /\ \E e \in BlockSet(net) :
          /\ HasSE(e.b)
          /\ OutChannels(e.b) = 256
          /\ e.b.se[1].cout = 16
          /\ e.b.se[3].cin = 16

(***************************************************************************)
(* C10: in every block of a network built by ResNext from a list of        *)
(* positive block counts, cardinality >= 1 and bottleneck_width >= 1, the  *)
(* two operands of the residual sum have the same shape for every input    *)
(* spatial size: same channel count (channels x 4), same height and width; *)
(* every block with an identity shortcut has input channels equal to       *)
(* output channels and stride 1, and every projection shortcut (1x1,       *)
(* stride s, no padding) yields the spatial size of the 3x3, stride s,     *)
(* padding 1 grouped convolution of the main path.                         *)
(***************************************************************************)
C10_ResidualShapes ==
    Built =>
        /\ \A e \in BlockSet(net) :
              /\ ~HasDownsample(e.b) => (InChannels(e.b) = OutChannels(e.b) /\ BlockStride(e.b) = 1)
              /\ HasDownsample(e.b) =>
                    /\ e.b.downsample[1].cout = OutChannels(e.b)
                    /\ \A h \in 1..(32 * MaxScale) :
                          ConvOut(h, e.b.downsample[1].k, e.b.downsample[1].s, e.b.downsample[1].p)
                              = ConvOut(h, e.b.body[4].k, e.b.body[4].s, e.b.body[4].p)
        /\ fwd.done =>
              LET all == AllBlocks(net)
              IN  \A j \in 1..Len(fwd.trace) :
                      (fwd.trace[j].x.err = "none" /\ fwd.trace[j].residual.err = "none") =>
                          /\ fwd.trace[j].x.shape = fwd.trace[j].residual.shape
                          /\ fwd.trace[j].x.shape[2] = OutChannels(all[j].b)

C10_Witness ==
    /\ call.fn = "ResNext"
    /\ call.cardinality = 1
    /\ call.bottleneck_width = 1
    /\ Len(call.layers) = 2
    /\ fwd.done
    /\ fwd.x = <<1, 3, 1, 1>>
    /\ ~fwd.training
    /\ Len(fwd.trace) = Len(AllBlocks(net))
    /\ fwd.trace[Len(fwd.trace)].residual = Ok(<<1, 512, 1, 1>>)
    /\ fwd.trace[Len(fwd.trace)].x = Ok(<<1, 512, 1, 1>>)
====
